---- MODULE Spec2Model ----
(***************************************************************************)
(* Model of tcb-bot: the poll loop of commandStart, the colly collector    *)
(* (Collector.Run / processHTMLElement), the in-memory CollectedChapters   *)
(* map with its SQLite persistence (Handler.LoadChapters / SaveChapters /  *)
(* Close) and the Discord notifier.                                        *)
(*                                                                         *)
(* Strings are sequences of tokens (each token a literal piece of text),   *)
(* so that splitting, trimming, unescaping and the two validation regexes  *)
(* are computed on the text instead of being assumed.  "" is <<>>.         *)
(***************************************************************************)
EXTENDS Integers, Sequences, FiniteSets, Bags, TLC

(***************************************************************************)
(* Bounds of the model.                                                    *)
(***************************************************************************)
MaxDoc == 2
MaxCycles == 2

(***************************************************************************)
(* Text helpers (Go standard library behaviour on token sequences).        *)
(***************************************************************************)
Empty == <<>>

WhiteSpace == {" ", "\t"}

RECURSIVE TrimLeft(_)
TrimLeft(s) ==
    IF s # <<>> /\ Head(s) \in WhiteSpace THEN TrimLeft(Tail(s)) ELSE s

RECURSIVE TrimRight(_)
TrimRight(s) ==
    IF s # <<>> /\ s[Len(s)] \in WhiteSpace
    THEN TrimRight(SubSeq(s, 1, Len(s) - 1))
    ELSE s

\* strings.TrimSpace
TrimSpace(s) == TrimRight(TrimLeft(s))

\* strings.Split(s, sep) for a one-token separator: the pieces between the
\* occurrences of sep, in order (n occurrences give n+1 pieces).
RECURSIVE Split(_, _)
Split(s, sep) ==
    IF \E i \in 1..Len(s) : s[i] = sep
    THEN LET i == CHOOSE j \in 1..Len(s) :
                     s[j] = sep /\ \A k \in 1..(j - 1) : s[k] # sep
         IN  <<SubSeq(s, 1, i - 1)>> \o Split(SubSeq(s, i + 1, Len(s)), sep)
    ELSE <<s>>

\* html.UnescapeString: every entity token becomes the text it stands for.
UnescapeToken(t) ==
    CASE t = "&amp;" -> "&"
      [] t = "&#39;" -> "'"
      [] OTHER -> t

UnescapeString(s) == [i \in 1..Len(s) |-> UnescapeToken(s[i])]

\* \d+ : the tokens that are runs of decimal digits.
DigitTokens == {"1", "5", "123", "250", "1100"}

\* [a-z0-9-]+ : the tokens made of lower-case letters, digits and dashes.
SlugTokens == DigitTokens \cup {"one-piece", "jujutsu-kaisen"}

\* (\d+(\.\d+)?)$
IsNumber(s) ==
    \/ Len(s) = 1 /\ s[1] \in DigitTokens
    \/ Len(s) = 3 /\ s[1] \in DigitTokens /\ s[2] = "." /\ s[3] \in DigitTokens

\* utils.IsValidReleaseTitle: ^(.+?) Chapter (\d+(\.\d+)?)$
IsValidReleaseTitle(releaseTitle) ==
    \E i \in 2..(Len(releaseTitle) - 2) :
        /\ \A k \in 1..(i - 1) : releaseTitle[k] # "\n"
        /\ releaseTitle[i] = " "
        /\ releaseTitle[i + 1] = "Chapter"
        /\ releaseTitle[i + 2] = " "
        /\ IsNumber(SubSeq(releaseTitle, i + 3, Len(releaseTitle)))

\* the place where the rule matches: (.+?) is lazy, so the first i at which
\* " Chapter " and a number up to the end follow a non-empty line-free text
RuleIndex(releaseTitle) ==
    CHOOSE i \in 2..(Len(releaseTitle) - 2) :
        /\ \A k \in 1..(i - 1) : releaseTitle[k] # "\n"
        /\ releaseTitle[i] = " "
        /\ releaseTitle[i + 1] = "Chapter"
        /\ releaseTitle[i + 2] = " "
        /\ IsNumber(SubSeq(releaseTitle, i + 3, Len(releaseTitle)))

\* the two groups of the rule, for a title it accepts
RuleSubject(releaseTitle) == SubSeq(releaseTitle, 1, RuleIndex(releaseTitle) - 1)
RuleNumber(releaseTitle) ==
    SubSeq(releaseTitle, RuleIndex(releaseTitle) + 3, Len(releaseTitle))

\* utils.IsValidReleaseLink: ^/chapters/\d+/[a-z0-9-]+-chapter-\d+.*$
IsValidReleaseLink(releaseLink) ==
    /\ Len(releaseLink) >= 6
    /\ releaseLink[1] = "/chapters/"
    /\ releaseLink[2] \in DigitTokens
    /\ releaseLink[3] = "/"
    /\ releaseLink[4] \in SlugTokens
    /\ releaseLink[5] = "-chapter-"
    /\ releaseLink[6] \in DigitTokens
    /\ \A k \in 7..Len(releaseLink) : releaseLink[k] # "\n"

\* splitReleaseTitle: (mangaTitle, chapterNumber, err)
splitReleaseTitle(releaseTitle) ==
    LET splitTitle == Split(releaseTitle, "Chapter")
    IN  IF Len(splitTitle) # 2
        THEN [mangaTitle |-> Empty, chapterNumber |-> Empty, err |-> TRUE]
        ELSE [mangaTitle |-> TrimSpace(splitTitle[1]),
              chapterNumber |-> TrimSpace(splitTitle[2]),
              err |-> FALSE]

(***************************************************************************)
(* Time: a wire timestamp is <<date, "T", hour, ":00:00", zone>>.          *)
(***************************************************************************)
WireDates == {"2024-05-01", "2024-05-02"}
WireHours == {"12", "23"}
WireZones == {"Z", "+02:00"}

\* time.Parse(time.RFC3339, releaseTime) succeeds
ParsesRFC3339(releaseTime) ==
    /\ Len(releaseTime) = 5
    /\ releaseTime[1] \in WireDates
    /\ releaseTime[2] = "T"
    /\ releaseTime[3] \in WireHours
    /\ releaseTime[4] = ":00:00"
    /\ releaseTime[5] \in WireZones

\* t.In(Europe/Berlin): Berlin is UTC+2 on these dates.
BerlinHour(hour, zone) ==
    IF zone = "+02:00" THEN hour
    ELSE CASE hour = "12" -> "14"
           [] hour = "23" -> "01"

BerlinNextDay(hour, zone) == zone = "Z" /\ hour = "23"

\* t.Format(time.RFC1123) of the day part
DisplayDate(date, next) ==
    CASE date = "2024-05-01" /\ ~next -> "Wed, 01 May 2024"
      [] date = "2024-05-01" /\ next  -> "Thu, 02 May 2024"
      [] date = "2024-05-02" /\ ~next -> "Thu, 02 May 2024"
      [] date = "2024-05-02" /\ next  -> "Fri, 03 May 2024"

\* utils.ParseAndConvertTime(releaseTime, RFC3339, "Europe/Berlin", RFC1123)
ParseAndConvertTime(releaseTime) ==
    IF ~ParsesRFC3339(releaseTime)
    THEN [time |-> Empty, err |-> TRUE]
    ELSE [time |-> <<DisplayDate(releaseTime[1],
                                 BerlinNextDay(releaseTime[3], releaseTime[5])),
                     " ", BerlinHour(releaseTime[3], releaseTime[5]),
                     ":00:00", " ", "CEST">>,
          err |-> FALSE]

(***************************************************************************)
(* Configuration values and the candidate blocks a fetched page can hold.  *)
(***************************************************************************)
WebsiteURL == "https://tcbscans.me"
DiscordChannelID == "release-channel"
DiscordErrorChannelID == "error-channel"

OnePiece == <<"One Piece">>
JujutsuKaisen == <<"Jujutsu Kaisen">>

\* AppConfig.defaults: watchedMangas
DefaultWatchedMangas == <<OnePiece, JujutsuKaisen>>

\* values an edit of the config file gives the watchedMangas setting
WatchLists == {<<OnePiece>>, DefaultWatchedMangas}

GoodLink == <<"/chapters/", "123", "/", "one-piece", "-chapter-", "1100">>
GoodTime == <<"2024-05-01", "T", "12", ":00:00", "Z">>

Block(title, link, chapterTitle, time) ==
    [title |-> title, link |-> link, chapterTitle |-> chapterTitle, time |-> time]

\* well-formed blocks
OP1100 == Block(<<"One Piece", " ", "Chapter", " ", "1100">>, GoodLink,
                <<"Final Arc">>, GoodTime)
OP1100Later == Block(<<"One Piece", " ", "Chapter", " ", "1100">>,
                     GoodLink \o <<"?ref=home">>, Empty,
                     <<"2024-05-01", "T", "23", ":00:00", "Z">>)
Dokoda == Block(<<"One Piece", " ", "Dokoda?!", " ", "Chapter", " ", "5">>,
                <<"/chapters/", "5", "/", "one-piece", "-chapter-", "5">>,
                Empty, GoodTime)
JJKBadTime == Block(<<"Jujutsu Kaisen", " ", "Chapter", " ", "250", ".", "5">>,
                    <<"/chapters/", "250", "/", "jujutsu-kaisen", "-chapter-", "250">>,
                    <<"Tom ", "&amp;", " Jerry">>, <<"yesterday">>)
\* blocks that fail a validation step
NoTitle == Block(Empty, GoodLink, <<"Final Arc">>, GoodTime)
NoMarker == Block(<<"just a string">>, GoodLink, Empty, GoodTime)
NoLink == Block(<<"One Piece", " ", "Chapter", " ", "1">>, Empty, Empty, GoodTime)
BadLink == Block(<<"One Piece", " ", "Chapter", " ", "5">>,
                 <<"/manga/", "5">>, Empty, GoodTime)
NoTime == Block(<<"One Piece", " ", "Chapter", " ", "123">>, GoodLink, Empty, Empty)

\* a page of releases, and a page whose markup has changed
Releases == {OP1100, OP1100Later, Dokoda, JJKBadTime}
Malformed == {NoTitle, NoMarker, NoLink, BadLink, NoTime}

Candidates == Releases \cup Malformed

\* the documents a fetch can return: pages of up to MaxDoc blocks, every block
\* the release OP1100 or every block but one
Documents ==
    UNION {{[i \in 1..n |-> OP1100]}
               \cup {[i \in 1..n |-> IF i = j THEN c ELSE OP1100] :
                        j \in 1..n, c \in Candidates} : n \in 0..MaxDoc}

\* the settings config.New requires
RequiredKeys == {"discordToken", "discordChannelID", "discordErrorChannelID",
                 "collectedChaptersDB"}

\* AppConfig.defaults: viper.SetDefault(key, "") for each of them
ZeroConfig == [k \in RequiredKeys |-> ""]

\* the settings of a filled-in config.toml
Configured ==
    [k \in RequiredKeys |->
        CASE k = "discordToken" -> "token"
          [] k = "discordChannelID" -> DiscordChannelID
          [] k = "discordErrorChannelID" -> DiscordErrorChannelID
          [] k = "collectedChaptersDB" -> "chapters.db"]

\* config.toml with any of the settings left out or left empty
FileConfigs ==
    {[k \in RequiredKeys |-> IF k \in set THEN Configured[k] ELSE ""] :
        set \in SUBSET RequiredKeys}

\* the TCB_BOT__ variables of the environment: unset or empty, or a value
Environments ==
    {[k \in RequiredKeys |-> IF k \in set THEN "from-env" ELSE ""] :
        set \in SUBSET RequiredKeys}

\* AppConfig.load: viper.Unmarshal of the file's values over the defaults
load(file) ==
    [k \in RequiredKeys |-> IF file[k] # "" THEN file[k] ELSE ZeroConfig[k]]

\* AppConfig.loadFromEnv: a variable with a non-empty value replaces the
\* setting
loadFromEnv(c, env) ==
    [k \in RequiredKeys |-> IF env[k] # "" THEN env[k] ELSE c[k]]

\* a check that leaves the database path out
MissingRequiredNoDB(c) ==
    \/ c["discordToken"] = ""
    \/ c["discordChannelID"] = ""
    \/ c["discordErrorChannelID"] = ""

\* config.New: the switch whose cases end in log.Fatal
MissingRequired(c) ==
    \/ c["discordToken"] = ""
    \/ c["discordChannelID"] = ""
    \/ c["discordErrorChannelID"] = ""
    \/ c["collectedChaptersDB"] = ""

\* messages of the errors Visit can return
FetchErrors == {"context deadline exceeded", "Service Unavailable"}

(***************************************************************************)
(* State.                                                                  *)
(***************************************************************************)
VARIABLES
    pc,                 \* commandStart's main goroutine: "config", "open",
                        \* "load", "serving", "closed", "exited", "fatal",
                        \* and "aborted" after the log.Fatal of config.New
    Config,             \* cfg.Config: the settings config.New requires
    poll,               \* the polling goroutine: "idle" or "visiting"
    cycles,             \* cycles started so far, over all runs
    WatchedMangas,      \* cfg.Config.WatchedMangas
    CollectedChapters,  \* db.CollectedChapters: Releasetitle -> CollectedChapter
    dbRows,             \* the collected_chapters table
    lastError,          \* commandStart's lastError
    htmlCallbacks,      \* number of OnHTML callbacks registered on co.c
    doc,                \* the candidate blocks of the page being visited
    cb,                 \* callback being run over the page
    el,                 \* block the callback is at
    runErr,             \* error Run is going to return (Empty = nil)
    pending,            \* bag of spawned notification goroutines not yet run
    released,           \* bag of release notifications attempted in this run
    pipelineLog,        \* error / resolved notifications sent in this run
    notifyErr,          \* err of the error / resolved send of the iteration
    accepted,           \* keys that passed the dedup check in this run
    parseErr,           \* a release time failed to parse in the cycle under way
    notifiedPrev,       \* keys notified in the previous run, if it exited with
                        \* every entry persisted
    flushedAtExit       \* the previous run exited with every entry persisted

vars == <<pc, Config, poll, cycles, WatchedMangas, CollectedChapters,
          dbRows, lastError, htmlCallbacks, doc, cb, el, runErr, pending,
          released, pipelineLog, notifyErr, accepted, parseErr,
          notifiedPrev, flushedAtExit>>

pollVars == <<poll, cycles, htmlCallbacks, doc, cb, el, runErr>>
histVars == <<released, pipelineLog, notifyErr, accepted, parseErr, notifiedPrev, flushedAtExit>>

EmptyMap == [k \in {} |-> {}]

\* a Store into a map of one slot: the entry replaces the ones before it
MapStoreEvicting(m, k, v) == [x \in {k} |-> v]

\* a Store that is left for later: the map is as it was
MapStoreLater(m, k, v) == m

\* xsync.MapOf.Store
MapStore(m, k, v) == [x \in (DOMAIN m) \cup {k} |-> IF x = k THEN v ELSE m[x]]

\* a polling goroutine that is started before the chapters are loaded
AliveBeforeLoad == pc \in {"load", "serving", "closed"}

\* the process exists and the polling goroutine has been started
Alive == pc \in {"serving", "closed"}

ReleasedKeys == {m.key : m \in BagToSet(released)}

\* number of release notifications attempted for key k in this run
Attempts(k) ==
    LET ms == {m \in BagToSet(released) : m.key = k}
        RECURSIVE Sum(_)
        Sum(S) == IF S = {} THEN 0
                  ELSE LET m == CHOOSE x \in S : TRUE
                       IN  CopiesIn(m, released) + Sum(S \ {m})
    IN  Sum(ms)

(***************************************************************************)
(* Persistence (internal/db Handler).                                      *)
(***************************************************************************)
\* queries.InsertChapter: upsert of one row by Releasetitle
InsertChapter(rows, chapter) == MapStore(rows, chapter.Releasetitle, chapter)

\* a Store loop that files each row under its link
RECURSIVE StoreAllByLink(_, _)
StoreAllByLink(m, chapters) ==
    IF chapters = {} THEN m
    ELSE LET chapter == CHOOSE c \in chapters : TRUE
         IN  StoreAllByLink(MapStore(m, chapter.Releaselink, chapter),
                            chapters \ {chapter})

\* queries.ListChapters followed by the Store loop of LoadChapters
RECURSIVE StoreAll(_, _)
StoreAll(m, chapters) ==
    IF chapters = {} THEN m
    ELSE LET chapter == CHOOSE c \in chapters : TRUE
         IN  StoreAll(MapStore(m, chapter.Releasetitle, chapter), chapters \ {chapter})

ListChapters(rows) == {rows[k] : k \in DOMAIN rows}

\* a load that files every row under its manga title
LoadedChaptersByManga(m, rows) ==
    LET chapters == ListChapters(rows)
    IN  [t \in (DOMAIN m) \cup {c.Mangatitle : c \in chapters} |->
            IF \E c \in chapters : c.Mangatitle = t
            THEN CHOOSE c \in chapters : c.Mangatitle = t
            ELSE m[t]]

LoadedChapters(m, rows) == StoreAll(m, ListChapters(rows))

Init ==
    /\ pc = "load"
    /\ Config = Configured
    /\ poll = "idle"
    /\ cycles = 0
    /\ WatchedMangas = DefaultWatchedMangas
    /\ CollectedChapters = EmptyMap
    /\ dbRows = EmptyMap
    /\ lastError = Empty
    /\ htmlCallbacks = 0
    /\ doc = <<>>
    /\ cb = 1
    /\ el = 1
    /\ runErr = Empty
    /\ pending = EmptyBag
    /\ released = EmptyBag
    /\ pipelineLog = <<>>
    /\ notifyErr = FALSE
    /\ accepted = {}
    /\ parseErr = FALSE
    /\ notifiedPrev = {}
    /\ flushedAtExit = FALSE

\* commandStart: database.LoadChapters(); a failure is log.Fatal
LoadChapters ==
    /\ UNCHANGED Config
    /\ pc = "load"
    /\ \E ok \in BOOLEAN :
         IF ok
         THEN /\ CollectedChapters' = LoadedChapters(CollectedChapters, dbRows)
              /\ pc' = "serving"
         ELSE /\ pc' = "fatal"
              /\ UNCHANGED CollectedChapters
    /\ UNCHANGED <<WatchedMangas, dbRows, lastError, pending>>
    /\ UNCHANGED <<pollVars, histVars>>

(***************************************************************************)
(* Collector (internal/html).                                              *)
(***************************************************************************)
\* the checks without the one of the link's shape
ValidatedNoLinkShape(e) ==
    /\ e.title # Empty
    /\ IsValidReleaseTitle(e.title)
    /\ e.link # Empty
    /\ e.time # Empty

\* processHTMLElement, the checks that return before the title is split:
\* title, link and time present, title and link of the required shape
Validated(e) ==
    /\ e.title # Empty
    /\ IsValidReleaseTitle(e.title)
    /\ e.link # Empty
    /\ IsValidReleaseLink(e.link)
    /\ e.time # Empty

\* a key made of the subject, a space and the number
AssembledTitleBare(mangaTitle, chapterNumber) ==
    mangaTitle \o <<" ">> \o chapterNumber

\* fmt.Sprintf("%s Chapter %s", mangaTitle, chapterNumber)
AssembledTitle(mangaTitle, chapterNumber) ==
    mangaTitle \o <<" ", "Chapter", " ">> \o chapterNumber

\* a watch-list test by prefix instead of equality
OnWatchlistPrefix(watched, mangaTitle) ==
    \E i \in 1..Len(watched) :
        /\ Len(watched[i]) <= Len(mangaTitle)
        /\ SubSeq(mangaTitle, 1, Len(watched[i])) = watched[i]

\* slices.Contains(co.cfg.Config.WatchedMangas, mangaTitle)
OnWatchlist(watched, mangaTitle) ==
    \E i \in 1..Len(watched) : watched[i] = mangaTitle

\* a dedup check that takes a record without detail title for a missing one
AlreadyCollectedWithTitle(m, assembledTitle) ==
    assembledTitle \in DOMAIN m /\ m[assembledTitle].Chaptertitle # Empty

\* a dedup check that never finds the chapter
AlreadyCollectedNever(m, assembledTitle) == FALSE

\* _, ok := db.CollectedChapters.Load(assembledTitle)
AlreadyCollected(m, assembledTitle) == assembledTitle \in DOMAIN m

\* the db.CollectedChapter built from a block that passed the checks
NewChapter(e) ==
    LET sp == splitReleaseTitle(UnescapeString(e.title))
    IN  [Releasetitle  |-> AssembledTitle(sp.mangaTitle, sp.chapterNumber),
         Releaselink   |-> e.link,
         Mangatitle    |-> sp.mangaTitle,
         Chapternumber |-> sp.chapterNumber,
         Chaptertitle  |-> UnescapeString(e.chapterTitle),
         Releasetime   |-> ParseAndConvertTime(e.time).time]

\* a desc that leaves the detail title out
DescriptionNoDetail(chapter) ==
    <<"Chapter ">> \o chapter.Chapternumber \o <<"\n">>

\* desc of the notification
Description(chapter) ==
    IF chapter.Chaptertitle = Empty
    THEN <<"Chapter ">> \o chapter.Chapternumber \o <<"\n">>
    ELSE <<"Chapter ">> \o chapter.Chapternumber \o <<": ">>
             \o chapter.Chaptertitle \o <<"\n">>

\* the goroutine started at the end of processHTMLElement: the arguments of
\* its co.bot.SendNotification call (key is the assembledTitle it logs)
Goroutine(chapter) ==
    [key         |-> chapter.Releasetitle,
     title       |-> chapter.Mangatitle,
     description |-> Description(chapter),
     url         |-> <<WebsiteURL>> \o chapter.Releaselink,
     timestamp   |-> chapter.Releasetime]

\* Discord.SendNotification: the message handed to sendNotification
ReleaseMessage(g, ok) ==
    [key         |-> g.key,
     channel     |-> DiscordChannelID,
     title       |-> g.title,
     description |-> g.description,
     url         |-> g.url,
     footer      |-> <<"Released at ">> \o g.timestamp,
     ok          |-> ok]

\* Run has no further callback invocation to make on this page
VisitDone == doc = <<>> \/ cb > htmlCallbacks

\* a Run that returns only when the notifications it started have been sent
RunReturnedAfterSends == VisitDone /\ pending = EmptyBag

\* Run returns when Visit has made its last callback invocation: the
\* notification goroutines it started are not waited for
RunReturned == VisitDone

\* a loop that calls Run whether or not the previous call has returned
LoopAtTopWhenever == TRUE

\* the polling goroutine is at the top of its for loop: the Run, the report
\* and the Sleep of the previous iteration are over
LoopAtTop == poll = "idle"

\* Collector.Run: registers one more OnHTML callback, then Visit fetches the
\* page (which fails with an error, or yields the page's blocks)
Run ==
    /\ UNCHANGED Config
    /\ Alive
    /\ LoopAtTop
    /\ cycles < MaxCycles
    /\ cycles' = cycles + 1
    /\ htmlCallbacks' = htmlCallbacks + 1
    /\ \/ \E err \in FetchErrors : runErr' = <<err>> /\ doc' = <<>>
       \/ \E d \in Documents : runErr' = Empty /\ doc' = d
    /\ poll' = "visiting"
    /\ cb' = 1
    /\ el' = 1
    /\ parseErr' = FALSE
    /\ notifyErr' = FALSE
    /\ UNCHANGED <<pc, WatchedMangas, CollectedChapters, dbRows,
                   lastError, pending, released, pipelineLog, accepted,
                   notifiedPrev, flushedAtExit>>

\* one invocation of processHTMLElement by callback cb on block el, watched
\* being the list that slices.Contains reads from co.cfg.Config.WatchedMangas
processHTMLElementWith(watched) ==
    /\ UNCHANGED Config
    /\ Alive
    /\ poll = "visiting"
    /\ ~VisitDone
    /\ LET e == doc[el]
           newChapter == NewChapter(e)
           assembledTitle == newChapter.Releasetitle
       IN  IF /\ Validated(e)
              /\ OnWatchlist(watched, newChapter.Mangatitle)
              /\ ~AlreadyCollected(CollectedChapters, assembledTitle)
           THEN /\ CollectedChapters' =
                       MapStore(CollectedChapters, assembledTitle, newChapter)
                /\ pending' = pending (+) SetToBag({Goroutine(newChapter)})
                /\ accepted' = accepted \cup {assembledTitle}
                /\ parseErr' = (parseErr \/ ParseAndConvertTime(e.time).err)
           ELSE UNCHANGED <<CollectedChapters, pending, accepted, parseErr>>
    /\ IF el < Len(doc)
       THEN el' = el + 1 /\ cb' = cb
       ELSE el' = 1 /\ cb' = cb + 1
    /\ UNCHANGED <<pc, poll, cycles, dbRows,
                   lastError, htmlCallbacks, doc, runErr, released, pipelineLog,
                   notifyErr,
                   notifiedPrev, flushedAtExit>>

\* an invocation that no reload of the config runs into
processHTMLElement ==
    /\ processHTMLElementWith(WatchedMangas)
    /\ UNCHANGED WatchedMangas

\* a notification goroutine runs: co.bot.SendNotification succeeds or fails
SendNotification ==
    /\ UNCHANGED Config
    /\ Alive
    /\ \E g \in BagToSet(pending) : \E ok \in BOOLEAN :
         /\ pending' = pending (-) SetToBag({g})
         /\ released' = released (+) SetToBag({ReleaseMessage(g, ok)})
    /\ UNCHANGED <<pc, WatchedMangas, CollectedChapters, dbRows,
                   lastError, pipelineLog, notifyErr, accepted, parseErr, notifiedPrev,
                   flushedAtExit>>
    /\ UNCHANGED pollVars

(***************************************************************************)
(* commandStart: the rest of one iteration of the poll loop.               *)
(***************************************************************************)
\* a message that leaves the error out
CurrentErrorBare(err) == <<"Unexpected error occurred: ">>

\* fmt.Sprintf("Unexpected error occurred: %v", err)
CurrentError(err) == <<"Unexpected error occurred: ">> \o err

\* an error notification on every failing cycle
ShouldNotifyErrorAlways(currentError, last) == TRUE

\* a resolved notification also on a run's first report, if a success
ShouldNotifyResolvedAtStart(last) == last # Empty \/ pipelineLog = <<>>

\* a resolved notification on every successful cycle
ShouldNotifyResolvedAlways(last) == TRUE

\* if currentError != lastError
ShouldNotifyError(currentError, last) == currentError # last

\* else if lastError != ""
ShouldNotifyResolved(last) == last # Empty

\* an error notification that goes to the release channel
ErrorMessageToReleases(currentError) ==
    [kind        |-> "error",
     channel     |-> DiscordChannelID,
     title       |-> <<"Error collecting chapters">>,
     description |-> currentError]

\* Discord.SendErrorNotification
ErrorMessage(currentError) ==
    [kind        |-> "error",
     channel     |-> DiscordErrorChannelID,
     title       |-> <<"Error collecting chapters">>,
     description |-> currentError]

\* Discord.SendResolvedNotification
ResolvedMessage ==
    [kind        |-> "resolved",
     channel     |-> DiscordErrorChannelID,
     title       |-> <<"Error resolved">>,
     description |-> <<"The previous error has been resolved">>]

\* a lastError that is left as it was when the send returned an error
NextLastErrorIfSent(message, sendErr) == IF sendErr THEN lastError ELSE message

\* lastError after the send of an error notification (message the error's
\* text) or of a resolved one (message ""): the err of the send is logged
NextLastError(message, sendErr) == message

\* Run has returned: the error / resolved notification (whose own failure is
\* only logged) and lastError, then the sleep until the next iteration
ReportCycle ==
    /\ UNCHANGED Config
    /\ Alive
    /\ poll = "visiting"
    /\ RunReturned
    /\ IF runErr # Empty
       THEN IF ShouldNotifyError(CurrentError(runErr), lastError)
            THEN /\ pipelineLog' =
                      Append(pipelineLog, ErrorMessage(CurrentError(runErr)))
                 /\ \E sendErr \in BOOLEAN :
                      /\ notifyErr' = sendErr
                      /\ lastError' = NextLastError(CurrentError(runErr), sendErr)
            ELSE UNCHANGED <<pipelineLog, notifyErr, lastError>>
       ELSE IF ShouldNotifyResolved(lastError)
            THEN /\ pipelineLog' = Append(pipelineLog, ResolvedMessage)
                 /\ \E sendErr \in BOOLEAN :
                      /\ notifyErr' = sendErr
                      /\ lastError' = NextLastError(Empty, sendErr)
            ELSE UNCHANGED <<pipelineLog, notifyErr, lastError>>
    /\ poll' = "idle"
    /\ doc' = <<>>
    /\ cb' = 1
    /\ el' = 1
    /\ runErr' = Empty
    /\ parseErr' = FALSE
    /\ UNCHANGED <<pc, cycles, WatchedMangas, CollectedChapters,
                   dbRows, htmlCallbacks, pending, released, accepted,
                   notifiedPrev, flushedAtExit>>

\* AppConfig.DynamicReload: the OnConfigChange callback replaces the watch list
DynamicReload ==
    /\ UNCHANGED Config
    /\ pc \in {"load", "serving", "closed"}
    /\ \E w \in WatchLists : WatchedMangas' = w
    /\ UNCHANGED <<pc, CollectedChapters, dbRows, lastError, pending>>
    /\ UNCHANGED <<pollVars, histVars>>

\* The callback of OnConfigChange holds c.m while it assigns the slice, and
\* nothing else takes c.m: the collector reads co.cfg.Config.WatchedMangas
\* without it.  A slice is a header of a pointer and a length, and the
\* assignment is not one write: a read that runs into it can pair the array
\* of one list with the length of the other.  Entries the length reaches
\* beyond the array are whatever the memory holds.
JunkEntries == {Empty, <<"\\x00">>}

TornHeader(array, length, junk) ==
    [i \in 1..length |-> IF i <= Len(array) THEN array[i] ELSE junk]

\* a torn read that sees all of the old list or all of the new one
TornListsWhole(old, new) == {old, new}

TornLists(old, new) ==
    {TornHeader(old, Len(new), j) : j \in JunkEntries}
        \cup {TornHeader(new, Len(old), j) : j \in JunkEntries}

(***************************************************************************)
(* commandStart: shutdown.                                                 *)
(***************************************************************************)
\* every entry of the map is in the table as it is in the map
Flushed(m, rows) ==
    \A k \in DOMAIN m : k \in DOMAIN rows /\ rows[k] = m[k]

\* queries.InsertChapter for every entry of a set of keys
RECURSIVE InsertAll(_, _, _)
InsertAll(rows, m, keys) ==
    IF keys = {} THEN rows
    ELSE LET k == CHOOSE x \in keys : TRUE
         IN  InsertAll(InsertChapter(rows, m[k]), m, keys \ {k})

\* a save that empties the table before it writes
SaveChaptersReplace(rows, m, saved) == InsertAll(EmptyMap, m, saved)

\* a save whose InsertChapterParams take Releasetime from Releaselink
SaveChaptersLinkAsTime(rows, m, saved) ==
    InsertAll(rows,
              [k \in DOMAIN m |-> [m[k] EXCEPT !.Releasetime = m[k].Releaselink]],
              saved)

\* SaveChapters: Range hands the entries to InsertChapter one by one, in no
\* particular order, and stops at the first insert that fails; saved is the
\* set of entries inserted before it stopped (all of them without a failure).
\* It returns nil either way.
SaveChapters(rows, m, saved) == InsertAll(rows, m, saved)

\* a SaveChapters that returns the error of the insert that failed
SaveChaptersErrOnFailure(m, saved) == saved # DOMAIN m

\* SaveChapters: the error it returns is nil (FALSE), whether an insert
\* failed (saved is not every entry) or not
SaveChaptersErr(m, saved) == FALSE

\* the process is gone, and its goroutines and its memory with it
ProcessGone ==
    /\ notifiedPrev' = IF Flushed(CollectedChapters, dbRows) THEN ReleasedKeys ELSE {}
    /\ poll' = "idle"
    /\ CollectedChapters' = EmptyMap
    /\ lastError' = Empty
    /\ htmlCallbacks' = 0
    /\ doc' = <<>>
    /\ cb' = 1
    /\ el' = 1
    /\ runErr' = Empty
    /\ pending' = EmptyBag
    /\ parseErr' = FALSE
    /\ notifyErr' = FALSE

\* a signal arrives on sigCh.  bot.Close(): on an error os.Exit(1) without
\* more ado; otherwise database.Close() runs SaveChapters and, unless that
\* returns an error (which Close hands to commandStart, and that is
\* os.Exit(1)), cancels the context and closes the handle.
Shutdown ==
    /\ UNCHANGED Config
    /\ pc = "serving"
    /\ \E botClosed \in BOOLEAN :
         IF botClosed
         THEN \E saved \in SUBSET (DOMAIN CollectedChapters) :
                /\ dbRows' = SaveChapters(dbRows, CollectedChapters, saved)
                /\ IF SaveChaptersErr(CollectedChapters, saved)
                   THEN /\ pc' = "exited"
                        /\ flushedAtExit' = Flushed(CollectedChapters, dbRows')
                        /\ ProcessGone
                   ELSE /\ pc' = "closed"
                        /\ UNCHANGED <<poll, CollectedChapters, lastError,
                                       htmlCallbacks, doc, cb, el, runErr,
                                       pending, parseErr, notifyErr,
                                       notifiedPrev, flushedAtExit>>
         ELSE /\ pc' = "exited"
              /\ flushedAtExit' = Flushed(CollectedChapters, dbRows)
              /\ ProcessGone
              /\ UNCHANGED dbRows
    /\ UNCHANGED <<cycles, WatchedMangas, released, pipelineLog,
                   accepted>>

\* database.Close() has returned: commandStart calls os.Exit
Exit ==
    /\ UNCHANGED Config
    /\ pc = "closed"
    /\ pc' = "exited"
    /\ flushedAtExit' = Flushed(CollectedChapters, dbRows)
    /\ ProcessGone
    /\ UNCHANGED <<cycles, WatchedMangas, dbRows, released,
                   pipelineLog, accepted>>

\* the bot is started again: a new process, with the table and the config
\* file as they were left (followed once the bot has polled at least once)
Restart ==
    /\ UNCHANGED Config
    /\ pc \in {"exited", "fatal"}
    /\ cycles > 0
    /\ pc' = "load"
    /\ released' = EmptyBag
    /\ pipelineLog' = <<>>
    /\ accepted' = {}
    /\ UNCHANGED <<poll, cycles, WatchedMangas, CollectedChapters, dbRows,
                   lastError, htmlCallbacks, doc, cb, el, runErr, pending,
                   parseErr, notifyErr, notifiedPrev, flushedAtExit>>

Next ==
    \/ LoadChapters
    \/ Run
    \/ processHTMLElement
    \/ SendNotification
    \/ ReportCycle
    \/ DynamicReload
    \/ Shutdown
    \/ Exit
    \/ Restart

Spec == Init /\ [][Next]_vars

(***************************************************************************)
(* One candidate block: the first cycle of a run has fetched a page of one *)
(* block, drawn from a wider set of titles, under a watch list drawn from  *)
(* a wider set of settings, on a map that is empty or holds one chapter.   *)
(***************************************************************************)
\* a subject that holds the word Chapter
TwoChapters == Block(<<"One Piece", " ", "Chapter", " ", "Two", " ", "Chapter", " ", "5">>,
                     <<"/chapters/", "5", "/", "one-piece", "-chapter-", "5">>,
                     Empty, GoodTime)
\* two spaces between the subject and the word Chapter
Padded == Block(<<"One Piece", " ", " ", "Chapter", " ", "1100">>, GoodLink,
                <<"Final Arc">>, GoodTime)
\* a watched subject with a decimal number and a release time that parses
JJK250 == Block(<<"Jujutsu Kaisen", " ", "Chapter", " ", "250", ".", "5">>,
                <<"/chapters/", "250", "/", "jujutsu-kaisen", "-chapter-", "250">>,
                <<"Tom ", "&amp;", " Jerry">>,
                <<"2024-05-02", "T", "23", ":00:00", "+02:00">>)

TitleCandidates == Candidates \cup {TwoChapters, Padded, JJK250}

\* AppConfig.loadFromEnv: strings.Split(value, ",") of TCB_BOT__WATCHED_MANGAS
\* set to "One Piece," gives an empty last entry
EnvWatchLists == WatchLists \cup {<<OnePiece, Empty>>}

InitCandidate ==
    /\ pc = "serving"
    /\ Config = Configured
    /\ poll = "visiting"
    /\ cycles = 1
    /\ WatchedMangas \in EnvWatchLists
    /\ dbRows \in {EmptyMap,
                    InsertChapter(EmptyMap, NewChapter(OP1100Later))}
    /\ CollectedChapters = LoadedChapters(EmptyMap, dbRows)
    /\ lastError = Empty
    /\ htmlCallbacks = 1
    /\ doc \in {<<c>> : c \in TitleCandidates}
    /\ cb = 1
    /\ el = 1
    /\ runErr = Empty
    /\ pending = EmptyBag
    /\ released = EmptyBag
    /\ pipelineLog = <<>>
    /\ notifyErr = FALSE
    /\ accepted = {}
    /\ parseErr = FALSE
    /\ notifiedPrev = {}
    /\ flushedAtExit = FALSE

NextCandidate ==
    \/ processHTMLElement
    \/ SendNotification
    \/ ReportCycle

SpecCandidate == InitCandidate /\ [][NextCandidate]_vars

(***************************************************************************)
(* One run of the process with its goroutines scheduled fairly: the        *)
(* polling goroutine takes its next step whenever it has one (Run, whose   *)
(* fetch ends with a page or, after the request timeout, with an error;    *)
(* the callbacks; the report and the Sleep).  A notification goroutine     *)
(* gets no such promise: its send may never return.                        *)
(***************************************************************************)
NextPolling ==
    \/ LoadChapters
    \/ Run
    \/ processHTMLElement
    \/ SendNotification
    \/ ReportCycle

\* the guard of processHTMLElement: a callback invocation is due.  The rest
\* of the action assigns and tests nothing, so this is ENABLED of it.
CallbackDue == Alive /\ poll = "visiting" /\ ~VisitDone

\* weak fairness of processHTMLElement, with its ENABLED written out
CallbacksRun == []<>(~CallbackDue) \/ []<><<processHTMLElement>>_vars

SpecPolling ==
    /\ Init
    /\ [][NextPolling]_vars
    /\ WF_vars(Run)
    /\ WF_vars(ReportCycle)
    /\ CallbacksRun

(***************************************************************************)
(* Properties.                                                             *)
(***************************************************************************)
\* the key under which processHTMLElement files block e
KeyOf(e) == NewChapter(e).Releasetitle

PendingKeys == {g.key : g \in BagToSet(pending)}

\* number of goroutines waiting to send a notification for key k
Waiting(k) ==
    LET gs == {g \in BagToSet(pending) : g.key = k}
        RECURSIVE Sum(_)
        Sum(S) == IF S = {} THEN 0
                  ELSE LET g == CHOOSE x \in S : TRUE
                       IN  CopiesIn(g, pending) + Sum(S \ {g})
    IN  Sum(gs)

\* this step is one invocation of processHTMLElement
ElementStep == poll = "visiting" /\ poll' = "visiting" /\ <<cb, el>>' # <<cb, el>>

\* this step is ReportCycle
ReportStep == poll = "visiting" /\ poll' = "idle" /\ pc' = pc

\* C1: within one run of the process at most one release notification is
\* started (and so attempted) per key, whatever pages the cycles see; and
\* processing a block whose key is in the map starts no notification.
C1_AtMostOncePerKey ==
    /\ [](\A k \in ReleasedKeys \cup PendingKeys : Attempts(k) + Waiting(k) <= 1)
    /\ [][(ElementStep /\ KeyOf(doc[el]) \in DOMAIN CollectedChapters)
             => pending' = pending]_vars

\* C1 witness: a page with two different blocks of one key has been visited
\* and exactly one notification for the key was attempted
C1_Witness ==
    /\ poll = "visiting"
    /\ VisitDone
    /\ Len(doc) = 2
    /\ doc[1] # doc[2]
    /\ KeyOf(doc[1]) = KeyOf(doc[2])
    /\ Attempts(KeyOf(doc[1])) = 1
    /\ Waiting(KeyOf(doc[1])) = 0

\* C2: no key that this run put into the map is in the map while its
\* notification has not been attempted (the send comes before the insert).
C2_SendBeforeInsert ==
    \A k \in accepted : k \in DOMAIN CollectedChapters => k \in ReleasedKeys

\* C3: a key whose notification failed to send is not left in the map, so
\* that a later cycle notifies again.
C3_FailedSendNotMarkedDone ==
    \A m \in BagToSet(released) :
        (~m.ok /\ Alive) => m.key \notin DOMAIN CollectedChapters

\* C4: every key that passed validation, watch list and dedup check has had
\* its notification attempted by the time the process is gone.
C4_AcceptedIsNotified ==
    pc = "exited" => accepted \subseteq ReleasedKeys

\* C5: a failing cycle sends an error notification (carrying the cycle's
\* message) if and only if that message differs from lastError, and leaves
\* lastError at the message; so two error notifications in a row never carry
\* the same message.
C5_ErrorOncePerMessage ==
    /\ [][(ReportStep /\ runErr # Empty) =>
            /\ lastError' = CurrentError(runErr)
            /\ IF CurrentError(runErr) # lastError
               THEN pipelineLog' =
                        Append(pipelineLog,
                               [kind |-> "error",
                                channel |-> DiscordErrorChannelID,
                                title |-> <<"Error collecting chapters">>,
                                description |-> CurrentError(runErr)])
               ELSE pipelineLog' = pipelineLog]_vars
    /\ [](\A i \in 1..(Len(pipelineLog) - 1) :
            (pipelineLog[i].kind = "error" /\ pipelineLog[i + 1].kind = "error")
                => pipelineLog[i].description # pipelineLog[i + 1].description)

\* C5 witness: a second failing cycle with the message of the first is about
\* to be reported, one error notification having been sent
C5_Witness ==
    /\ poll = "visiting"
    /\ runErr # Empty
    /\ CurrentError(runErr) = lastError
    /\ Len(pipelineLog) = 1
    /\ pipelineLog[1].kind = "error"

\* C6: a successful cycle sends exactly one resolved notification and clears
\* lastError when lastError was set, and sends nothing when it was empty.
C6_ResolvedOncePerRecovery ==
    [][(ReportStep /\ runErr = Empty) =>
          /\ lastError' = Empty
          /\ IF lastError # Empty
             THEN /\ Len(pipelineLog') = Len(pipelineLog) + 1
                  /\ SubSeq(pipelineLog', 1, Len(pipelineLog)) = pipelineLog
                  /\ pipelineLog'[Len(pipelineLog')].kind = "resolved"
             ELSE pipelineLog' = pipelineLog]_vars

\* C6 witness: an error notification was followed by a resolved one
C6_Witness ==
    /\ Len(pipelineLog) = 2
    /\ pipelineLog[1].kind = "error"
    /\ pipelineLog[2].kind = "resolved"
    /\ lastError = Empty
    /\ poll = "idle"

\* C7: a cycle in which a non-empty release time failed to parse returns an
\* error from Run.
C7_ParseFailureFailsCycle ==
    (poll = "visiting" /\ VisitDone /\ parseErr) => runErr # Empty

\* a block with an empty title, link or time, or a title or link of the
\* wrong shape
IsMalformed(e) ==
    \/ e.title = Empty
    \/ e.link = Empty
    \/ e.time = Empty
    \/ ~IsValidReleaseTitle(e.title)
    \/ ~IsValidReleaseLink(e.link)

\* C8: processing a malformed block stores nothing, starts no notification
\* and moves on to the next block; and a page that was fetched, malformed
\* blocks or not, makes Run return no error.
C8_MalformedIsSkipped ==
    /\ [][(ElementStep /\ IsMalformed(doc[el])) =>
            /\ UNCHANGED <<CollectedChapters, pending, released, runErr, doc>>
            /\ <<cb, el>>' = IF el < Len(doc) THEN <<cb, el + 1>>
                             ELSE <<cb + 1, 1>>]_vars
    /\ []((poll = "visiting" /\ \E i \in DOMAIN doc : IsMalformed(doc[i]))
             => runErr = Empty)

\* C8 witness: a page with a malformed block followed by a new watched
\* release has been visited, and the release was taken
C8_Witness ==
    /\ poll = "visiting"
    /\ VisitDone
    /\ Len(doc) = 2
    /\ IsMalformed(doc[1])
    /\ KeyOf(doc[2]) \in accepted
    /\ runErr = Empty
    /\ Cardinality(DOMAIN CollectedChapters) = 1

\* C9: every notification goroutine that is started carries a subject that
\* is equal to an entry of the watch list.
C9_ExactWatchMatch ==
    [][\A g \in BagToSet(pending') :
          CopiesIn(g, pending') > CopiesIn(g, pending)
              => \E i \in DOMAIN WatchedMangas : WatchedMangas[i] = g.title]_vars

\* C9 witness: "One Piece" is watched, a page with "One Piece Dokoda?!" has
\* been visited and nothing was stored or sent for it
C9_Witness ==
    /\ poll = "visiting"
    /\ VisitDone
    /\ \E i \in DOMAIN doc : doc[i] = Dokoda
    /\ \E i \in DOMAIN WatchedMangas : WatchedMangas[i] = OnePiece
    /\ KeyOf(Dokoda) \notin DOMAIN CollectedChapters
    /\ pending = EmptyBag

\* C10: in a run that follows a run which exited with every entry of its
\* map persisted, once the load is done the keys the earlier run notified
\* are in the map, and no notification is started for any of them.
C10_NoRenotifyAfterRestart ==
    (flushedAtExit /\ Alive) =>
        /\ notifiedPrev \subseteq DOMAIN CollectedChapters
        /\ notifiedPrev \cap (ReleasedKeys \cup PendingKeys) = {}

\* C10 witness: after such a restart a page with a release notified by the
\* earlier run has been visited
C10_Witness ==
    /\ flushedAtExit
    /\ pc = "serving"
    /\ poll = "visiting"
    /\ VisitDone
    /\ \E i \in DOMAIN doc : KeyOf(doc[i]) \in notifiedPrev

\* this step ends the process
ExitStep == pc # "exited" /\ pc' = "exited"

\* C11: when a cycle whose Run returned no error has been reported, every
\* entry of the map is in the table.
C11_SavedAfterEachCycle ==
    [][(ReportStep /\ pc = "serving" /\ runErr = Empty)
          => Flushed(CollectedChapters', dbRows')]_vars

\* C12: the process exits only from the state database.Close() leaves, that
\* is after SaveChapters has run, whichever way the shutdown goes.
C12_FinalSaveOnEveryPath ==
    [][ExitStep => pc = "closed"]_vars

\* C13: once database.Close() has run SaveChapters, the polling goroutine and
\* the notification goroutines store nothing and send nothing.
C13_CycleFinishesBeforeFinalSave ==
    [][(pc = "closed" /\ pc' = "closed")
          => UNCHANGED <<CollectedChapters, released>>]_vars

\* C14: a cycle starts only when none is under way: the counter of started
\* cycles moves by one, and only from the top of the loop.
C14_NoOverlappingCycles ==
    [][cycles' # cycles
          => (poll = "idle" /\ poll' = "visiting" /\ cycles' = cycles + 1)]_vars

\* C14 witness: in one run a second cycle is under way, started after the
\* first was reported, while a notification of the first is still waiting
C14_Witness ==
    /\ pc = "serving"
    /\ poll = "visiting"
    /\ htmlCallbacks = 2
    /\ pending # EmptyBag

FailedSends == {m \in BagToSet(released) : ~m.ok}

\* C16: the first cycle of a run, when a release notification it attempted
\* has failed by the time Run has returned, is reported as failed: Run
\* returns an error and lastError is set.
C16_SendFailureFailsCycle ==
    [][(ReportStep /\ htmlCallbacks = 1 /\ FailedSends # {})
          => (runErr # Empty /\ lastError' # Empty)]_vars

\* C17: a cycle whose fetch failed is reported with the message of that
\* error; while it is under way nothing is stored and no notification
\* goroutine is started; and when it has been reported the loop is at its
\* top again with the process as it was, so that Run can be called again.
C17_FetchFailureFailsCycle ==
    /\ [][(ReportStep /\ runErr # Empty) =>
            /\ lastError' = <<"Unexpected error occurred: ">> \o runErr
            /\ UNCHANGED <<CollectedChapters, pending, released, accepted>>]_vars
    /\ [][(poll = "visiting" /\ runErr # Empty /\ pc' \in {"serving", "closed"}) =>
            /\ UNCHANGED <<CollectedChapters, accepted>>
            /\ \A g \in BagToSet(pending') : CopiesIn(g, pending') <= CopiesIn(g, pending)]_vars
    /\ []((poll = "visiting" /\ runErr # Empty) => (doc = <<>> /\ VisitDone))
    /\ []((Alive /\ poll = "idle" /\ cycles < MaxCycles) => ENABLED Run)

\* C17 witness: in one run a page is being visited after a cycle whose fetch
\* failed was reported
C17_Witness ==
    /\ pc = "serving"
    /\ poll = "visiting"
    /\ htmlCallbacks = 2
    /\ lastError = <<"Unexpected error occurred: ", "Service Unavailable">>
    /\ doc # <<>>
    /\ CollectedChapters = EmptyMap

\* C18: until LoadChapters has succeeded, and for good when it has failed,
\* no cycle is started or under way and no notification is started or sent.
C18_LoadFailureIsFatal ==
    /\ [](pc \in {"load", "fatal"} =>
            /\ poll = "idle"
            /\ htmlCallbacks = 0
            /\ pending = EmptyBag
            /\ released = EmptyBag
            /\ pipelineLog = <<>>)
    /\ [][pc = "fatal" => (pc' = "load" \/ UNCHANGED vars)]_vars
    /\ [][cycles' # cycles => pc \in {"serving", "closed"}]_vars

\* C18 witness: with chapters in the table, the load has failed
C18_Witness ==
    /\ pc = "fatal"
    /\ dbRows # EmptyMap

\* C19: an entry that a SaveChapters failed to write is written by the save
\* of the next cycle end.  Stated for the first cycle of a run, whose page
\* has blocks i < j that were both stored by this run: the table holds the
\* entry of j, so SaveChapters has run after both were stored, and it does
\* not hold the entry of i, so the insert of i failed or was not reached;
\* when the cycle has been reported the entry of i is in the table.
C19_FailedSaveIsRetried ==
    [][(ReportStep /\ pc = "closed" /\ htmlCallbacks = 1 /\ runErr = Empty) =>
          \A i, j \in DOMAIN doc :
              (/\ i < j
               /\ KeyOf(doc[i]) \in accepted
               /\ KeyOf(doc[j]) \in accepted \cap DOMAIN dbRows)
                  => KeyOf(doc[i]) \in DOMAIN dbRows']_vars

\* C20: every release notification goes to the release channel and every
\* error or resolved notification to the error channel.
C20_ChannelsKeptApart ==
    /\ \A m \in BagToSet(released) : m.channel = DiscordChannelID
    /\ \A i \in DOMAIN pipelineLog : pipelineLog[i].channel = DiscordErrorChannelID
    /\ DiscordChannelID # DiscordErrorChannelID

\* C20 witness: a release, an error and a resolved notification were sent
C20_Witness ==
    /\ released # EmptyBag
    /\ \E i \in DOMAIN pipelineLog : pipelineLog[i].kind = "error"
    /\ \E i \in DOMAIN pipelineLog : pipelineLog[i].kind = "resolved"

\* C21: while the process lives no step takes a key out of the map, be it a
\* cycle, the load or the save at shutdown; and no step at all takes a key
\* out of the table.
C21_KeysNeverShrink ==
    /\ [][pc' # "exited"
            => DOMAIN CollectedChapters \subseteq DOMAIN CollectedChapters']_vars
    /\ [][DOMAIN dbRows \subseteq DOMAIN dbRows']_vars

\* C21 witness: a run that loaded a chapter of an earlier run has stored a
\* second one and has been shut down, both being in the map and in the table
C21_Witness ==
    /\ pc = "closed"
    /\ notifiedPrev # {}
    /\ accepted # {}
    /\ Cardinality(DOMAIN CollectedChapters) = 2
    /\ Cardinality(DOMAIN dbRows) = 2

\* C22: processing a block whose key is in the map with a record that
\* differs from the block's in another field starts no notification and
\* leaves the map, and so the stored record, as it was.
C22_StoredRecordKept ==
    [][(/\ ElementStep
        /\ Validated(doc[el])
        /\ KeyOf(doc[el]) \in DOMAIN CollectedChapters
        /\ CollectedChapters[KeyOf(doc[el])] # NewChapter(doc[el]))
          => UNCHANGED <<CollectedChapters, pending, released, accepted>>]_vars

\* C22 witness: a page on which a watched release follows a block of its key
\* with another link, detail title and time has been visited; the record of
\* the first is the stored one
C22_Witness ==
    /\ poll = "visiting"
    /\ VisitDone
    /\ Len(doc) = 2
    /\ doc[2] = OP1100
    /\ Validated(doc[1])
    /\ KeyOf(doc[1]) = KeyOf(OP1100)
    /\ KeyOf(OP1100) \in accepted
    /\ CollectedChapters[KeyOf(OP1100)] = NewChapter(doc[1])
    /\ CollectedChapters[KeyOf(OP1100)] # NewChapter(OP1100)

\* C23: saving every entry of the map and loading the table into an empty
\* map gives the map back, keys and field values; and the load of a run
\* leaves in the map exactly the rows of the table.
C23_SaveLoadRoundTrip ==
    /\ [](Alive =>
            LoadedChapters(EmptyMap,
                           SaveChapters(dbRows, CollectedChapters,
                                        DOMAIN CollectedChapters))
                = CollectedChapters)
    /\ [][(pc = "load" /\ pc' = "serving") =>
            /\ DOMAIN CollectedChapters' = DOMAIN dbRows
            /\ \A k \in DOMAIN dbRows : CollectedChapters'[k] = dbRows[k]]_vars
    /\ []((flushedAtExit /\ pc = "serving" /\ accepted = {})
            => Flushed(CollectedChapters, dbRows))

\* C23 witness: a run has loaded the two records, of different subjects,
\* that the run before it stored and saved
C23_Witness ==
    /\ pc = "serving"
    /\ flushedAtExit
    /\ accepted = {}
    /\ Cardinality(DOMAIN CollectedChapters) = 2
    /\ Cardinality({CollectedChapters[k].Mangatitle : k \in DOMAIN CollectedChapters}) = 2

\* C24: a save of entries the table already holds as the map has them, all
\* of them or those before a failed insert, leaves the table as it was: a
\* second save changes nothing.
C24_SaveIsIdempotent ==
    /\ [](Alive =>
            LET once == SaveChapters(dbRows, CollectedChapters,
                                     DOMAIN CollectedChapters)
            IN  \A saved \in SUBSET DOMAIN CollectedChapters :
                    SaveChapters(once, CollectedChapters, saved) = once)
    /\ [][(pc = "serving" /\ pc' = "closed" /\ Flushed(CollectedChapters, dbRows))
            => dbRows' = dbRows]_vars

\* C24 witness: a run that loaded two saved records and stored none has
\* been shut down, SaveChapters having run on them a second time
C24_Witness ==
    /\ pc = "closed"
    /\ flushedAtExit
    /\ accepted = {}
    /\ Cardinality(DOMAIN dbRows) = 2
    /\ Flushed(CollectedChapters, dbRows)

\* C25: when processHTMLElement processes a block that passed the checks,
\* the subject and the number it extracts from the title are the trimmed
\* subject and the number that the rule of IsValidReleaseTitle matched.
C25_SplitAgreesWithRule ==
    [][(ElementStep /\ Validated(doc[el])) =>
          /\ NewChapter(doc[el]).Mangatitle
                = TrimSpace(UnescapeString(RuleSubject(doc[el].title)))
          /\ NewChapter(doc[el]).Chapternumber
                = TrimSpace(UnescapeString(RuleNumber(doc[el].title)))]_vars

\* the body with and without a detail title, without a closing line break
BodyBare(number, detail) ==
    IF detail = Empty THEN <<"Chapter ">> \o number
    ELSE <<"Chapter ">> \o number \o <<": ">> \o detail

\* the body with a closing line break
BodyLine(number, detail) == BodyBare(number, detail) \o <<"\n">>

\* every notification waiting or attempted has the stored subject as title,
\* the base URL followed by the stored link as URL and Body as body
MessageShape(Body(_, _)) ==
    Alive =>
        \A m \in BagToSet(released) \cup BagToSet(pending) :
            LET chapter == CollectedChapters[m.key]
            IN  /\ m.title = chapter.Mangatitle
                /\ m.url = <<WebsiteURL>> \o chapter.Releaselink
                /\ m.description
                      = Body(chapter.Chapternumber, chapter.Chaptertitle)

\* a watched, new block that passed the checks is stored with its link and
\* detail title and notified, with or without a detail title
StoredAndNotified ==
    (/\ ElementStep
     /\ Validated(doc[el])
     /\ OnWatchlist(WatchedMangas, NewChapter(doc[el]).Mangatitle)
     /\ KeyOf(doc[el]) \notin DOMAIN CollectedChapters) =>
        /\ KeyOf(doc[el]) \in DOMAIN CollectedChapters'
        /\ CollectedChapters'[KeyOf(doc[el])].Releaselink = doc[el].link
        /\ CollectedChapters'[KeyOf(doc[el])].Chaptertitle
              = UnescapeString(doc[el].chapterTitle)
        /\ KeyOf(doc[el]) \in {g.key : g \in BagToSet(pending')}

KeyShape(Key(_, _)) ==
    \A k \in DOMAIN CollectedChapters :
        k = Key(CollectedChapters[k].Mangatitle,
                CollectedChapters[k].Chapternumber)

LookupShape(Key(_, _)) ==
    (/\ ElementStep
     /\ Validated(doc[el])
     /\ OnWatchlist(WatchedMangas, NewChapter(doc[el]).Mangatitle)) =>
        LET k == Key(NewChapter(doc[el]).Mangatitle,
                     NewChapter(doc[el]).Chapternumber)
        IN  IF k \in DOMAIN CollectedChapters
            THEN CollectedChapters' = CollectedChapters
            ELSE /\ k \in DOMAIN CollectedChapters'
                 /\ CollectedChapters'[k] = NewChapter(doc[el])

\* the key with the word Chapter between the subject and the number
KeyWithChapter(mangaTitle, chapterNumber) ==
    mangaTitle \o <<" ", "Chapter", " ">> \o chapterNumber

\* C27 as stated: the key is the subject, a space and the number; for
\* "One Piece Chapter 1100" it is "One Piece 1100".
C27_KeyAsStated ==
    /\ [](KeyShape(AssembledTitleBare))
    /\ [][LookupShape(AssembledTitleBare)]_vars
    /\ [](KeyOf(OP1100) = <<"One Piece", " ", "1100">>)

\* C27: the key of storage and lookup is the subject, " Chapter " and the
\* number; for "One Piece Chapter 1100" it is "One Piece Chapter 1100".
C27_KeyShape ==
    /\ [](KeyShape(KeyWithChapter))
    /\ [][LookupShape(KeyWithChapter)]_vars
    /\ [](OP1100.title = <<"One Piece", " ", "Chapter", " ", "1100">>
            /\ KeyOf(OP1100) = <<"One Piece", " ", "Chapter", " ", "1100">>)

\* C27 witness: "One Piece Chapter 1100" has been processed with its key in
\* the map of a record with another link, and the map was left as it was
C27_Witness ==
    /\ doc = <<OP1100>>
    /\ VisitDone
    /\ accepted = {}
    /\ DOMAIN CollectedChapters = {<<"One Piece", " ", "Chapter", " ", "1100">>}
    /\ CollectedChapters[KeyOf(OP1100)].Releaselink = OP1100Later.link

\* C29: whatever the number of cycles the collector has run, a page is
\* visited with one callback registered, and no block is passed to
\* processHTMLElement by a second one.
C29_OneCallPerBlock ==
    /\ [](poll = "visiting" => htmlCallbacks = 1)
    /\ [][ElementStep => cb = 1]_vars

\* C30: processing a block whose unescaped title splitReleaseTitle cannot
\* split into a subject and a number stores nothing and starts no
\* notification, whatever the watch list.
C30_UnsplittableIsDropped ==
    [][(ElementStep /\ splitReleaseTitle(UnescapeString(doc[el].title)).err)
          => UNCHANGED <<CollectedChapters, pending, accepted>>]_vars

C31_DisplayTimePresent ==
    /\ \A k \in DOMAIN CollectedChapters :
          CollectedChapters[k].Releasetime # Empty
    /\ \A g \in BagToSet(pending) : g.timestamp # Empty
    /\ \A m \in BagToSet(released) : m.footer # <<"Released at ">>

\* the cycle under report has the outcome the one before it left in
\* lastError: the same error message, or success after success
SameOutcome ==
    IF runErr # Empty THEN CurrentError(runErr) = lastError
    ELSE lastError = Empty

\* C32: when a cycle has been reported lastError is the cycle's error
\* message if it failed and empty if it succeeded, whether the error or
\* resolved send returned an error or not; and a cycle with the outcome of
\* the one before sends no error or resolved notification, so a send that
\* failed is not made again.
C32_LastErrorTracksOutcome ==
    /\ [][ReportStep =>
            lastError' = IF runErr # Empty THEN CurrentError(runErr)
                         ELSE Empty]_vars
    /\ [][(ReportStep /\ SameOutcome) =>
            (pipelineLog' = pipelineLog /\ ~notifyErr')]_vars
    /\ [](notifyErr => (poll = "idle" /\ pipelineLog # <<>>))

\* C32 witness: the error send of one cycle and the resolved send of the
\* next both went out, the resolved one returned an error, and lastError
\* is empty
C32_Witness ==
    /\ pc = "serving"
    /\ poll = "idle"
    /\ notifyErr
    /\ lastError = Empty
    /\ Len(pipelineLog) = 2
    /\ pipelineLog[2].kind = "resolved"

\* C33: in the notifications of a run every resolved one comes right after
\* an error one, so there is an error notification between it and the
\* resolved one before it or the start of the process; and a resolved
\* notification is sent only while lastError is set.
C33_ResolvedFollowsError ==
    /\ [](\A i \in DOMAIN pipelineLog :
            pipelineLog[i].kind = "resolved"
                => (i > 1 /\ pipelineLog[i - 1].kind = "error"))
    /\ [][(/\ Len(pipelineLog') = Len(pipelineLog) + 1
            /\ pipelineLog'[Len(pipelineLog')].kind = "resolved")
              => (lastError # Empty /\ lastError' = Empty)]_vars

\* C33 witness: a run that is shut down has sent an error notification for
\* a fetch that timed out and then a resolved one
C33_Witness ==
    /\ pc = "closed"
    /\ Len(pipelineLog) = 2
    /\ pipelineLog[1].description
          = <<"Unexpected error occurred: ", "context deadline exceeded">>
    /\ pipelineLog[2].kind = "resolved"

\* C34: every entry of the map, loaded or stored by a cycle, is filed under
\* the Releasetitle of its record, and so is every row of the table; a save
\* writes each entry it inserts to the row of the entry's map key.
C34_KeyIsReleasetitle ==
    /\ [](\A k \in DOMAIN CollectedChapters :
            CollectedChapters[k].Releasetitle = k)
    /\ [](\A k \in DOMAIN dbRows : dbRows[k].Releasetitle = k)
    /\ [][(pc = "serving" /\ pc' = "closed") =>
            \A k \in DOMAIN dbRows' :
                \/ k \in DOMAIN dbRows /\ dbRows'[k] = dbRows[k]
                \/ k \in DOMAIN CollectedChapters
                      /\ dbRows'[k] = CollectedChapters[k]]_vars

\* C34 witness: a run has loaded a chapter an earlier run saved and a cycle
\* of it has stored a second one
C34_Witness ==
    /\ pc = "serving"
    /\ poll = "idle"
    /\ notifiedPrev # {}
    /\ Cardinality(accepted) = 1
    /\ Cardinality(DOMAIN CollectedChapters) = 2
    /\ Cardinality(DOMAIN dbRows) = 1

\* C35: a shutdown whose SaveChapters wrote anything, or left an entry
\* unwritten because an insert failed, goes on to the end of Close (the
\* context cancelled, the handle closed) and not straight to the exit: the
\* failure is not handed to the caller; from there the exit follows.  What
\* the save leaves in the table is the table as it was with some of the
\* entries of the map written, the others not attempted.
C35_FailedSaveNotReported ==
    /\ [][(pc = "serving" /\ pc' = "exited") => dbRows' = dbRows]_vars
    /\ [][(pc = "serving" /\ pc' # "serving" /\ dbRows' # dbRows)
            => pc' = "closed"]_vars
    /\ [][(pc = "serving" /\ pc' = "closed") =>
            \E saved \in SUBSET DOMAIN CollectedChapters :
                /\ DOMAIN dbRows' = DOMAIN dbRows \cup saved
                /\ \A k \in saved : dbRows'[k] = CollectedChapters[k]
                /\ \A k \in DOMAIN dbRows \ saved : dbRows'[k] = dbRows[k]]_vars
    /\ [](pc = "closed" => ENABLED Exit)

\* C35 witness: the first run has stored two chapters and has been shut
\* down; the first insert of SaveChapters failed, the second entry was not
\* attempted, and Close has returned
C35_Witness ==
    /\ pc = "closed"
    /\ poll = "idle"
    /\ notifiedPrev = {}
    /\ ~flushedAtExit
    /\ Cardinality(accepted) = 2
    /\ Cardinality(DOMAIN CollectedChapters) = 2
    /\ dbRows = EmptyMap

(***************************************************************************)
(* A reload of the config file while one block of a page is processed.     *)
(***************************************************************************)
\* values an edit of the config file gives the watchedMangas setting, the
\* example of the config template in the other order among them
ReloadWatchLists == WatchLists \cup {<<JujutsuKaisen, OnePiece>>}

InitReload ==
    /\ pc = "serving"
    /\ Config = Configured
    /\ poll = "visiting"
    /\ cycles = 1
    /\ WatchedMangas \in ReloadWatchLists
    /\ dbRows \in {EmptyMap,
                    InsertChapter(EmptyMap, NewChapter(OP1100Later))}
    /\ CollectedChapters = LoadedChapters(EmptyMap, dbRows)
    /\ lastError = Empty
    /\ htmlCallbacks = 1
    /\ doc \in {<<c>> : c \in Candidates}
    /\ cb = 1
    /\ el = 1
    /\ runErr = Empty
    /\ pending = EmptyBag
    /\ released = EmptyBag
    /\ pipelineLog = <<>>
    /\ notifyErr = FALSE
    /\ accepted = {}
    /\ parseErr = FALSE
    /\ notifiedPrev = {}
    /\ flushedAtExit = FALSE

\* the file changes while no callback of the collector reads the list
ReloadBetweenCallbacks ==
    /\ UNCHANGED Config
    /\ pc = "serving"
    /\ \E w \in ReloadWatchLists : WatchedMangas' = w
    /\ UNCHANGED <<pc, CollectedChapters, dbRows, lastError, pending>>
    /\ UNCHANGED <<pollVars, histVars>>

\* the file changes while a callback reads the list: slices.Contains works
\* on a torn header, or the read of an entry beyond the array ends the
\* process with a fault
ReloadDuringCallback ==
    \E w \in ReloadWatchLists \ {WatchedMangas} :
        /\ WatchedMangas' = w
        /\ \/ \E seen \in TornLists(WatchedMangas, w) :
                  processHTMLElementWith(seen)
           \/ /\ Alive
              /\ poll = "visiting"
              /\ ~VisitDone
              /\ Len(w) # Len(WatchedMangas)
              /\ pc' = "fatal"
              /\ flushedAtExit' = Flushed(CollectedChapters, dbRows)
              /\ ProcessGone
              /\ UNCHANGED <<Config, cycles, dbRows, released, pipelineLog,
                             accepted>>

NextReload ==
    \/ processHTMLElement
    \/ ReloadBetweenCallbacks
    \/ ReloadDuringCallback
    \/ SendNotification
    \/ ReportCycle

SpecReload == InitReload /\ [][NextReload]_vars

\* block el is filtered as slices.Contains filters it against list w
FilteredAgainst(w) ==
    LET e == doc[el]
    IN  CollectedChapters' # CollectedChapters
            <=> OnWatchlist(w, NewChapter(e).Mangatitle)

\* C36: a reload of the watch list and the collector's read of it exclude
\* each other: a block that passes the validation and is not in the map yet
\* is filtered against the complete list of before the reload or against the
\* complete list of after it.
C36_ReloadExcludesRead ==
    [][(poll = "visiting" /\ ~VisitDone /\ <<cb, el>>' # <<cb, el>>
          /\ pc' = pc
          /\ Validated(doc[el])
          /\ KeyOf(doc[el]) \notin DOMAIN CollectedChapters)
        => FilteredAgainst(WatchedMangas) \/ FilteredAgainst(WatchedMangas')]_vars

(***************************************************************************)
(* commandStart from its first statement: config.New, then the database    *)
(* and the discord session are opened, the chapters loaded and the polling *)
(* goroutine started.                                                      *)
(***************************************************************************)
InitStartup ==
    /\ pc = "config"
    /\ Config = ZeroConfig
    /\ poll = "idle"
    /\ cycles = 0
    /\ WatchedMangas = DefaultWatchedMangas
    /\ CollectedChapters = EmptyMap
    /\ dbRows = EmptyMap
    /\ lastError = Empty
    /\ htmlCallbacks = 0
    /\ doc = <<>>
    /\ cb = 1
    /\ el = 1
    /\ runErr = Empty
    /\ pending = EmptyBag
    /\ released = EmptyBag
    /\ pipelineLog = <<>>
    /\ notifyErr = FALSE
    /\ accepted = {}
    /\ parseErr = FALSE
    /\ notifiedPrev = {}
    /\ flushedAtExit = FALSE

\* config.New: c.load(configPath), c.loadFromEnv(), and log.Fatal when a
\* required setting is empty
New ==
    /\ pc = "config"
    /\ \E file \in FileConfigs : \E env \in Environments :
         Config' = loadFromEnv(load(file), env)
    /\ pc' = IF MissingRequired(Config') THEN "aborted" ELSE "open"
    /\ UNCHANGED <<WatchedMangas, CollectedChapters, dbRows, lastError, pending>>
    /\ UNCHANGED <<pollVars, histVars>>

\* database.Open() and bot.Open(): an error of either is log.Fatal
Open ==
    /\ pc = "open"
    /\ \E ok \in BOOLEAN : pc' = IF ok THEN "load" ELSE "fatal"
    /\ UNCHANGED <<Config, WatchedMangas, CollectedChapters, dbRows, lastError,
                   pending>>
    /\ UNCHANGED <<pollVars, histVars>>

NextStartup ==
    \/ New
    \/ Open
    \/ LoadChapters
    \/ Run

SpecStartup == InitStartup /\ [][NextStartup]_vars

\* C37: commandStart gets past config.New only with discordToken,
\* discordChannelID, discordErrorChannelID and collectedChaptersDB all
\* non-empty in the merged configuration; with one of them empty the process
\* ends there, with no database opened and no cycle started.
C37_RequiredSettings ==
    /\ [](pc \notin {"config", "aborted"}
            => \A k \in RequiredKeys : Config[k] # "")
    /\ [][pc = "config"
            => /\ pc' \in {"open", "aborted"}
               /\ pc' = "aborted" <=> \E k \in RequiredKeys : Config'[k] = ""]_vars
    /\ [](pc = "aborted"
            => /\ cycles = 0
               /\ poll = "idle"
               /\ htmlCallbacks = 0
               /\ CollectedChapters = EmptyMap)
    /\ [][pc # "aborted"]_vars

\* a cycle has started with the token from the environment and the other
\* settings from the file
C37_Witness ==
    /\ pc = "serving"
    /\ poll = "visiting"
    /\ Config["discordToken"] = "from-env"
    /\ Config["collectedChaptersDB"] = "chapters.db"
    /\ Config["discordChannelID"] = DiscordChannelID

====
